---- MODULE Spec2Model ----
(***************************************************************************)
(* Model of mainlang.py: the Twilio voice bridge.  Three webhook handlers  *)
(* (voice_answer, voice_process, voice_timeout) share the process-wide     *)
(* dict silence_tracker.  The handlers run on one asyncio event loop: a    *)
(* handler runs without interruption between its await points.  After the  *)
(* form has been read, voice_answer and voice_timeout have no await point; *)
(* voice_process has one, inside _ask_chat (the POST to CHAT_ENDPOINT).    *)
(*                                                                         *)
(* Texts are sequences of words, URLs sequences of segments, a form is a   *)
(* function whose DOMAIN is the set of fields present, and Python's None   *)
(* is the empty option <<>> (a present value v is <<v>>).                  *)
(***************************************************************************)
EXTENDS Integers, Sequences, FiniteSets, Bags

VARIABLES
    silence_tracker,   \* Dict[str, int]: call_sid -> silence count
    PUBLIC_BASE_URL,   \* configuration read once at import
    inflight,          \* bag of the call_sid of each voice_process suspended in _ask_chat
    called,            \* call ids that have had a /voice/answer request
    last,              \* the most recent handler return: event, call id, document
    watched,           \* the call id the observers below follow (any one, fixed at the start)
    cont,              \* what the last document returned for the watched call leaves the provider to do
    inOrder,           \* every event of the watched call so far was the continuation of its last document
    ended,             \* a document with a hangup has been returned for the watched call
    unanswered,        \* listen windows of the watched call that elapsed without speech since its last speech
    streak             \* consecutive timeout events of the watched call since its count was 0

observers == <<cont, inOrder, ended, unanswered, streak>>

vars == <<silence_tracker, PUBLIC_BASE_URL, inflight, called, last, watched,
          cont, inOrder, ended, unanswered, streak>>

----------------------------------------------------------------------------
(* Bounds of the model *)

MaxInFlight == 2      \* voice_process invocations suspended at once
MaxCounted == 3       \* cap of the observers unanswered and streak

----------------------------------------------------------------------------
(* Program constants and configuration *)

MAX_SILENCE_COUNT == 2

WELCOME_PROMPT ==
    <<"Welcome to LIC. With you, every moment of your life.",
      "Hope you are satisfied with your current policy.",
      "You can ask your question now.">>
FOLLOWUP_PROMPT == <<"Do you have another question?">>
ProcessFailedText == <<"Sorry, something went wrong while answering your question.">>
EndGoodbyeText == <<"Thank you for calling LIC. Have a great day. Goodbye.">>
SilenceGoodbyeText == <<"I haven't heard from you. Thank you for calling. Goodbye.">>
RepromptText == <<"I didn't catch that. Do you have any questions?">>
NoAnswerText == <<"Sorry, I can't find that right now.">>

DefaultBaseUrl == <<"https://twiolio-customer-support.onrender.com">>
BaseUrls == {DefaultBaseUrl, DefaultBaseUrl \o <<"/">>}
UnsetBaseUrl == <<>>

----------------------------------------------------------------------------
(* Python values *)

None == <<>>
Some(v) == <<v>>

\* form.get(field, default)
FormGet(form, field, default) ==
    IF field \in DOMAIN form THEN form[field] ELSE default

\* form.get(field): None when the field is absent
FormGetOpt(form, field) ==
    IF field \in DOMAIN form THEN Some(form[field]) ELSE None

\* bool(x) of an Optional[str]: None and "" are falsy
Truthy(opt) == opt # None /\ opt[1] # <<>>

\* d.get(k, default)
DictGet(d, k, default) == IF k \in DOMAIN d THEN d[k] ELSE default

\* d[k] = v
DictSet(d, k, v) == [x \in DOMAIN d \cup {k} |-> IF x = k THEN v ELSE d[x]]

\* d.clear() in the place of d.pop(k, None)
DictPop_clear(d, k) == [x \in {} |-> 0]

\* d.pop(k, None)
DictPop(d, k) == [x \in DOMAIN d \ {k} |-> d[x]]

\* s.rstrip('/')
RECURSIVE RStripSlash(_)
RStripSlash(s) ==
    IF s # <<>> /\ s[Len(s)] = "/"
    THEN RStripSlash(SubSeq(s, 1, Len(s) - 1))
    ELSE s

\* str.lower() word by word
LowerWord(w) ==
    CASE w = "END_CALL" -> "end_call"
      [] w = "True" -> "true"
      [] w = "TRUE" -> "true"
      [] OTHER -> w

Lower(text) == [i \in DOMAIN text |-> LowerWord(text[i])]

\* `word in text`
Contains(text, word) == \E i \in DOMAIN text : text[i] = word

----------------------------------------------------------------------------
(* TwiML documents: a sequence of verbs *)

Say(text) == [verb |-> "Say", says |-> <<text>>, url |-> <<>>, barge_in |-> FALSE]
Gather(action, says) == [verb |-> "Gather", says |-> says, url |-> action, barge_in |-> TRUE]
Redirect(url) == [verb |-> "Redirect", says |-> <<>>, url |-> url, barge_in |-> FALSE]
Hangup == [verb |-> "Hangup", says |-> <<>>, url |-> <<>>, barge_in |-> FALSE]

\* What the framework answers when the handler raises: no TwiML document
ServerError == <<[verb |-> "Error500", says |-> <<>>, url |-> <<>>, barge_in |-> FALSE]>>

HasVerb(render, v) == \E i \in DOMAIN render : render[i].verb = v
HasHangup(render) == HasVerb(render, "Hangup")
HasGather(render) == HasVerb(render, "Gather")
HasRedirect(render) == HasVerb(render, "Redirect")
IsError(render) == HasVerb(render, "Error500")

\* _abs(path) raises when PUBLIC_BASE_URL is empty
AbsRaises(base) == base = <<>>

_abs(base, path) == RStripSlash(base) \o <<path>>

\* The <Gather action=/voice/process> ... </Gather><Redirect>/voice/timeout</Redirect>
\* document all three handlers build
ListenRender(base, says) ==
    << Gather(_abs(base, "/voice/process"), says),
       Redirect(_abs(base, "/voice/timeout")) >>

----------------------------------------------------------------------------
(* Inputs *)

CallSids == {"CA1"}
Keys == CallSids \cup {"unknown"}

\* SpeechResult values: "", " " and a question
EmptyTranscript == <<>>
BlankTranscript == <<" ">>
Question == <<"what is my premium due date">>
Transcripts == {EmptyTranscript, BlankTranscript, Question}

Whitespace == {" "}
\* transcript.strip() == ""
IsBlank(s) == \A i \in DOMAIN s : s[i] \in Whitespace

NoFields == [f \in {} |-> <<>>]

\* Forms of /voice/answer and /voice/timeout requests: CallSid or nothing
SidForms == {[CallSid |-> s] : s \in CallSids} \cup {NoFields}

\* Forms of /voice/process requests: CallSid and SpeechResult, each optional
ProcessForms ==
    {[CallSid |-> s, SpeechResult |-> t] : s \in CallSids, t \in Transcripts}
    \cup {[SpeechResult |-> t] : t \in Transcripts}
    \cup SidForms

\* What the POST to CHAT_ENDPOINT can come back with
PlainAnswer == <<"Your premium is due on the 5th.">>
MarkerAnswer == <<"{", "END_CALL", ":", "True", "}">>
HalfMarkerAnswer == <<"end_call", "is", "not", "set">>
Answers == {PlainAnswer, MarkerAnswer, HalfMarkerAnswer, <<>>}

\* (object: the JSON body is an object, so that data.get exists)
ChatOutcome(kind, status, json, data) ==
    [kind |-> kind, status |-> status, json |-> json, object |-> json, data |-> data]

ChatOutcomes ==
    { ChatOutcome("network_error", 0, FALSE, NoFields),
      ChatOutcome("timeout", 0, FALSE, NoFields),
      ChatOutcome("response", 500, TRUE, NoFields),
      ChatOutcome("response", 200, FALSE, NoFields),
      ChatOutcome("response", 200, TRUE, NoFields),
      [ChatOutcome("response", 200, TRUE, NoFields) EXCEPT !.object = FALSE] }
    \cup {ChatOutcome("response", 200, TRUE, [answer |-> a]) : a \in Answers}

----------------------------------------------------------------------------
(* The handlers, as functions of the dict, the configuration and the input *)

\* the marker test on the answer as sent, without .lower()
HasEndMarker_nolower(answer) ==
    Contains(answer, "end_call") /\ Contains(answer, "true")

\* the marker test with `or` for `and`
HasEndMarker_either(answer) ==
    Contains(Lower(answer), "end_call") \/ Contains(Lower(answer), "true")

\* 'end_call' in answer.lower() and 'true' in answer.lower()
HasEndMarker(answer) ==
    Contains(Lower(answer), "end_call") /\ Contains(Lower(answer), "true")

\* _ask_chat without the `or` default of line 195: data.get("answer", "")
_ask_chat_nofallback(outcome) ==
    IF \/ outcome.kind # "response" \/ outcome.status # 200 \/ ~outcome.json
       \/ ~outcome.object
    THEN [raised |-> TRUE, answer |-> <<>>, should_end |-> FALSE]
    ELSE LET answer == FormGet(outcome.data, "answer", <<>>)
         IN  IF HasEndMarker(answer)
             THEN [raised |-> FALSE, answer |-> <<>>, should_end |-> TRUE]
             ELSE [raised |-> FALSE, answer |-> answer, should_end |-> FALSE]

\* _ask_chat: raises on a transport error, a non-success status or a body that
\* is not a JSON object; otherwise (answer, should_end)
_ask_chat(outcome) ==
    IF \/ outcome.kind # "response" \/ outcome.status # 200 \/ ~outcome.json
       \/ ~outcome.object
    THEN [raised |-> TRUE, answer |-> <<>>, should_end |-> FALSE]
    ELSE LET got == FormGet(outcome.data, "answer", <<>>)
             answer == IF got # <<>> THEN got ELSE NoAnswerText
         IN  IF HasEndMarker(answer)
             THEN [raised |-> FALSE, answer |-> <<>>, should_end |-> TRUE]
             ELSE [raised |-> FALSE, answer |-> answer, should_end |-> FALSE]

\* voice_answer counting the greeting as a first silence
voice_answer_counted(tracker, base, form) ==
    LET call_sid == FormGet(form, "CallSid", "unknown")
    IN  [ call_sid |-> call_sid,
          tracker |-> DictSet(tracker, call_sid, 1),
          count |-> 1,
          render |-> ListenRender(base, <<WELCOME_PROMPT>>) ]

voice_answer(tracker, base, form) ==
    LET call_sid == FormGet(form, "CallSid", "unknown")
        reset == DictSet(tracker, call_sid, 0)
    IN  [ call_sid |-> call_sid,
          tracker |-> reset,
          count |-> 0,
          render |-> IF AbsRaises(base) THEN ServerError
                     ELSE ListenRender(base, <<WELCOME_PROMPT>>) ]

\* voice_timeout writing a count taken from a read that a concurrent
\* invocation has since overwritten (here: the read of a call without entry)
voice_timeout_stale(tracker, base, form) ==
    LET call_sid == FormGet(form, "CallSid", "unknown")
        count == 1
        counted == DictSet(tracker, call_sid, count)
    IN  [ call_sid |-> call_sid,
          tracker |-> counted,
          count |-> count,
          render |-> ListenRender(base, <<RepromptText>>) ]

\* voice_timeout hanging up without the goodbye line (vr.say of line 163 left out)
voice_timeout_bare(tracker, base, form) ==
    LET call_sid == FormGet(form, "CallSid", "unknown")
        count == DictGet(tracker, call_sid, 0) + 1
        counted == DictSet(tracker, call_sid, count)
    IN  IF count >= MAX_SILENCE_COUNT
        THEN [ call_sid |-> call_sid,
               tracker |-> DictPop(counted, call_sid),
               count |-> count,
               render |-> <<Hangup>> ]
        ELSE [ call_sid |-> call_sid,
               tracker |-> counted,
               count |-> count,
               render |-> IF AbsRaises(base) THEN ServerError
                          ELSE ListenRender(base, <<RepromptText>>) ]

\* voice_timeout with the comparison off by one (count > MAX_SILENCE_COUNT)
voice_timeout_late(tracker, base, form) ==
    LET call_sid == FormGet(form, "CallSid", "unknown")
        count == DictGet(tracker, call_sid, 0) + 1
        counted == DictSet(tracker, call_sid, count)
    IN  IF count > MAX_SILENCE_COUNT
        THEN [ call_sid |-> call_sid,
               tracker |-> DictPop(counted, call_sid),
               count |-> count,
               render |-> <<Say(SilenceGoodbyeText), Hangup>> ]
        ELSE [ call_sid |-> call_sid,
               tracker |-> counted,
               count |-> count,
               render |-> ListenRender(base, <<RepromptText>>) ]

voice_timeout(tracker, base, form) ==
    LET call_sid == FormGet(form, "CallSid", "unknown")
        count == DictGet(tracker, call_sid, 0) + 1
        counted == DictSet(tracker, call_sid, count)
    IN  IF count >= MAX_SILENCE_COUNT
        THEN [ call_sid |-> call_sid,
               tracker |-> DictPop(counted, call_sid),
               count |-> count,
               render |-> <<Say(SilenceGoodbyeText), Hangup>> ]
        ELSE [ call_sid |-> call_sid,
               tracker |-> counted,
               count |-> count,
               render |-> IF AbsRaises(base) THEN ServerError
                          ELSE ListenRender(base, <<RepromptText>>) ]

\* voice_process without the reset of line 109
voice_process_begin_noreset(tracker, base, form) ==
    LET call_sid == FormGet(form, "CallSid", "unknown")
        transcript == FormGetOpt(form, "SpeechResult")
    IN  IF ~Truthy(transcript)
        THEN [ call_sid |-> call_sid,
               returned |-> TRUE,
               tracker |-> tracker,
               question |-> <<>>,
               render |-> <<Redirect(_abs(base, "/voice/timeout"))>> ]
        ELSE [ call_sid |-> call_sid,
               returned |-> FALSE,
               tracker |-> tracker,
               question |-> transcript[1],
               render |-> <<>> ]

\* voice_process up to its await: either it returns the redirect (no
\* transcript), or it resets the count and suspends in _ask_chat
voice_process_begin(tracker, base, form) ==
    LET call_sid == FormGet(form, "CallSid", "unknown")
        transcript == FormGetOpt(form, "SpeechResult")
    IN  IF ~Truthy(transcript)
        THEN [ call_sid |-> call_sid,
               returned |-> TRUE,
               tracker |-> tracker,
               question |-> <<>>,
               render |-> IF AbsRaises(base) THEN ServerError
                          ELSE <<Redirect(_abs(base, "/voice/timeout"))>> ]
        ELSE [ call_sid |-> call_sid,
               returned |-> FALSE,
               tracker |-> DictSet(tracker, call_sid, 0),
               question |-> transcript[1],
               render |-> <<>> ]

\* voice_process without the pop of line 127
voice_process_resume_nopop(tracker, base, call_sid, outcome) ==
    LET reply == _ask_chat(outcome)
    IN  IF reply.raised
        THEN [ tracker |-> tracker,
               render |-> << Say(ProcessFailedText),
                             Redirect(_abs(base, "/voice/timeout")) >> ]
        ELSE IF reply.should_end
        THEN [ tracker |-> tracker,
               render |-> <<Say(EndGoodbyeText), Hangup>> ]
        ELSE [ tracker |-> tracker,
               render |-> ListenRender(base, <<reply.answer, FOLLOWUP_PROMPT>>) ]

\* voice_process from the await on, given what the POST came back with
\* voice_process whose except branch only apologises (vr.redirect of line 118
\* left out)
voice_process_resume_noredirect(tracker, base, call_sid, outcome) ==
    LET reply == _ask_chat(outcome)
    IN  IF reply.raised
        THEN [ tracker |-> tracker,
               render |-> <<Say(ProcessFailedText)>> ]
        ELSE IF reply.should_end
        THEN [ tracker |-> DictPop(tracker, call_sid),
               render |-> <<Say(EndGoodbyeText), Hangup>> ]
        ELSE [ tracker |-> tracker,
               render |-> IF AbsRaises(base) THEN ServerError
                          ELSE ListenRender(base, <<reply.answer, FOLLOWUP_PROMPT>>) ]

voice_process_resume(tracker, base, call_sid, outcome) ==
    LET reply == _ask_chat(outcome)
    IN  IF reply.raised
        THEN [ tracker |-> tracker,
               render |-> IF AbsRaises(base) THEN ServerError
                          ELSE << Say(ProcessFailedText),
                                  Redirect(_abs(base, "/voice/timeout")) >> ]
        ELSE IF reply.should_end
        THEN [ tracker |-> DictPop(tracker, call_sid),
               render |-> <<Say(EndGoodbyeText), Hangup>> ]
        ELSE [ tracker |-> tracker,
               render |-> IF AbsRaises(base) THEN ServerError
                          ELSE ListenRender(base, <<reply.answer, FOLLOWUP_PROMPT>>) ]

----------------------------------------------------------------------------
(* Observers of a call, kept beside the program's state *)

NoReturn ==
    [ev |-> "none", call_sid |-> "unknown", render |-> <<>>, count |-> 0, chat |-> None]

Returned(ev, call_sid, render, count, chat) ==
    [ev |-> ev, call_sid |-> call_sid, render |-> render, count |-> count, chat |-> chat]

\* What a returned document leaves the telephony provider to do next
ContOf(render) ==
    IF HasHangup(render) THEN "ended"
    ELSE IF HasGather(render) THEN "listen"
    ELSE IF HasRedirect(render) THEN "redirect"
    ELSE "failed"

Bump(n) == IF n < MaxCounted THEN n + 1 ELSE n

\* The observers follow the step when it is a step of the watched call
Observe(k, c, o, e, u, s) ==
    IF k = watched
    THEN /\ cont' = c
         /\ inOrder' = o
         /\ ended' = e
         /\ unanswered' = u
         /\ streak' = s
    ELSE UNCHANGED observers

----------------------------------------------------------------------------
(* State machine *)

Init ==
    /\ silence_tracker = [k \in {} |-> 0]
    /\ PUBLIC_BASE_URL = DefaultBaseUrl
    /\ inflight = EmptyBag
    /\ called = {}
    /\ last = NoReturn
    /\ watched \in Keys
    /\ cont = "new"
    /\ inOrder = TRUE
    /\ ended = FALSE
    /\ unanswered = 0
    /\ streak = 0

\* A request to /voice/answer
OnAnswer ==
    \E form \in SidForms :
        LET r == voice_answer(silence_tracker, PUBLIC_BASE_URL, form)
            k == r.call_sid
        IN  /\ silence_tracker' = r.tracker
            /\ called' = called \cup {k}
            /\ last' = Returned("answer", k, r.render, r.count, None)
            /\ Observe(k, ContOf(r.render), inOrder /\ cont = "new",
                       ended \/ HasHangup(r.render), 0, 0)
            /\ UNCHANGED <<PUBLIC_BASE_URL, inflight, watched>>

\* A request to /voice/timeout.  The URL reaches the provider only inside a
\* document returned for the call, so the call has had its /voice/answer
\* request before.
OnTimeout ==
    \E form \in SidForms :
        LET r == voice_timeout(silence_tracker, PUBLIC_BASE_URL, form)
            k == r.call_sid
        IN  /\ k \in called
            /\ silence_tracker' = r.tracker
            /\ last' = Returned("timeout", k, r.render, r.count, None)
            /\ Observe(k, ContOf(r.render),
                       inOrder /\ cont \in {"listen", "redirect"},
                       ended \/ HasHangup(r.render),
                       IF cont = "listen" THEN Bump(unanswered) ELSE unanswered,
                       IF DictGet(silence_tracker, k, 0) = 0 THEN 1 ELSE Bump(streak))
            /\ UNCHANGED <<PUBLIC_BASE_URL, inflight, called, watched>>

\* A request to /voice/process that returns at once (no transcript)
OnProcessSilent ==
    \E form \in ProcessForms :
        LET b == voice_process_begin(silence_tracker, PUBLIC_BASE_URL, form)
            k == b.call_sid
        IN  /\ k \in called
            /\ b.returned
            /\ silence_tracker' = b.tracker
            /\ last' = Returned("process", k, b.render, 0, None)
            /\ Observe(k, ContOf(b.render), inOrder /\ cont = "listen",
                       ended \/ HasHangup(b.render),
                       IF cont = "listen" THEN Bump(unanswered) ELSE unanswered,
                       streak)
            /\ UNCHANGED <<PUBLIC_BASE_URL, inflight, called, watched>>

\* A request to /voice/process with a transcript: runs up to the POST to
\* CHAT_ENDPOINT and suspends there
OnProcessSpeech ==
    \E form \in ProcessForms :
        LET b == voice_process_begin(silence_tracker, PUBLIC_BASE_URL, form)
            k == b.call_sid
        IN  /\ k \in called
            /\ ~b.returned
            /\ BagCardinality(inflight) < MaxInFlight
            /\ silence_tracker' = b.tracker
            /\ inflight' = inflight (+) SetToBag({k})
            /\ Observe(k, "busy", inOrder /\ cont = "listen", ended, 0, 0)
            /\ UNCHANGED <<PUBLIC_BASE_URL, called, last, watched>>

\* The POST of a suspended voice_process comes back (or fails) and the
\* handler runs to its return
OnChatReply ==
    \E k \in BagToSet(inflight), outcome \in ChatOutcomes :
        LET r == voice_process_resume(silence_tracker, PUBLIC_BASE_URL, k, outcome)
        IN  /\ silence_tracker' = r.tracker
            /\ inflight' = inflight (-) SetToBag({k})
            /\ last' = Returned("process", k, r.render, 0, Some(outcome))
            /\ Observe(k, ContOf(r.render), inOrder, ended \/ HasHangup(r.render),
                       unanswered, IF HasHangup(r.render) THEN 0 ELSE streak)
            /\ UNCHANGED <<PUBLIC_BASE_URL, called, watched>>

Next ==
    \/ OnAnswer
    \/ OnTimeout
    \/ OnProcessSilent
    \/ OnProcessSpeech
    \/ OnChatReply

Spec == Init /\ [][Next]_vars

\* Every document that keeps the call ends in <Redirect> /voice/timeout, which
\* the provider requests when the caller stays silent: the timeout request of
\* the watched call is not postponed for ever.
WatchedTimeout == OnTimeout /\ last'.call_sid = watched
WatchedSpeaks ==
    \/ OnAnswer /\ last'.call_sid = watched
    \/ OnProcessSpeech /\ inflight' = inflight (+) SetToBag({watched})

FairSpec == Spec /\ WF_vars(WatchedTimeout)

\* The service started with PUBLIC_BASE_URL set to the empty string (line 31
\* then leaves it empty and line 34 only logs a warning)
InitUnset ==
    /\ silence_tracker = [k \in {} |-> 0]
    /\ PUBLIC_BASE_URL = UnsetBaseUrl
    /\ inflight = EmptyBag
    /\ called = {}
    /\ last = NoReturn
    /\ watched \in Keys
    /\ cont = "new"
    /\ inOrder = TRUE
    /\ ended = FALSE
    /\ unanswered = 0
    /\ streak = 0

UnsetSpec == InitUnset /\ [][Next]_vars

----------------------------------------------------------------------------
(* Which handler the step is a return of.  OnProcessSpeech is the only     *)
(* step that adds to inflight and OnChatReply the only one that removes.   *)

TimeoutStep == last'.ev = "timeout" /\ inflight' = inflight
AnswerStep == last'.ev = "answer" /\ inflight' = inflight
SilentProcessStep == last'.ev = "process" /\ last'.chat = None /\ inflight' = inflight
SpeechStep == BagCardinality(inflight') > BagCardinality(inflight)
ReplyStep == BagCardinality(inflight') < BagCardinality(inflight)
ReturnStep == ~SpeechStep

GoodbyeHangup(render) ==
    /\ Len(render) = 2
    /\ render[1].verb = "Say"
    /\ render[2].verb = "Hangup"

----------------------------------------------------------------------------
(* Claims *)

\* C1: of two consecutive /voice/timeout events of a call that start from a
\* silence count of 0 (nothing having reset or removed the count in between),
\* the first stores 1 and reopens a listen window and the second returns the
\* goodbye + hangup document and opens no listen window; no third
\* consecutive timeout is ever answered with a listen window.  The same
\* holds counted in listen windows: in a call whose events follow its
\* documents, the timeout at which the second window has elapsed unanswered
\* hangs up, and a third such window never elapses.
C1_SecondSilenceHangsUp ==
    [][ /\ (TimeoutStep /\ last'.call_sid = watched /\ streak' = 1)
            => /\ last'.render = ListenRender(PUBLIC_BASE_URL, <<RepromptText>>)
               /\ DictGet(silence_tracker', watched, 0) = 1
        /\ (TimeoutStep /\ last'.call_sid = watched /\ streak' = 2)
            => /\ last'.render = <<Say(SilenceGoodbyeText), Hangup>>
               /\ ~HasGather(last'.render)
        /\ (TimeoutStep /\ last'.call_sid = watched /\ inOrder' /\ unanswered' = 2)
            => /\ GoodbyeHangup(last'.render)
               /\ ~HasGather(last'.render)
        /\ streak' <= 2
        /\ inOrder' => unanswered' <= 2
      ]_vars

\* C1, its last part: a call that has been answered and whose caller never
\* speaks again (no further transcript, no new greeting) is hung up on.
C1_SilentCallerDisconnected ==
    /\ C1_SecondSilenceHangsUp
    /\ ([]<><<WatchedSpeaks>>_vars) \/ [](watched \in called => <>ended)

C1_Witness ==
    /\ last.ev = "timeout"
    /\ last.call_sid = watched
    /\ streak = 2
    /\ inOrder
    /\ unanswered = 2
    /\ HasHangup(last.render)

\* C2: whenever voice_timeout returns the hangup document, two listen
\* windows of the call have elapsed without speech since the caller last
\* spoke (or since the greeting); stated for calls whose every event is the
\* continuation of the call's last document (no duplicate, no late delivery).
C2_HangupOnlyAfterTwoWindows ==
    (/\ last.ev = "timeout"
     /\ last.call_sid = watched
     /\ HasHangup(last.render)
     /\ inOrder)
        => unanswered >= 2

\* The form of a request that carries call id k
FormOf(k) == IF k = "unknown" THEN NoFields ELSE [CallSid |-> k]

\* A transport failure of the POST: network error, timeout, non-success status
TransportFailure(outcome) ==
    outcome.kind \in {"network_error", "timeout"} \/ outcome.status # 200

\* C3: a voice_process turn whose POST to the QA backend failed returns the
\* fallback apology, no hangup, and a reopened listen window (in the document
\* itself or, at the latest, in the document its redirect to /voice/timeout
\* produces); and a hangup is only ever returned for the end marker or for
\* silence exhaustion.
C3_BackendFailureKeepsCall ==
    /\ (last.ev = "process" /\ last.chat # None /\ TransportFailure(last.chat[1]))
        => /\ ~HasHangup(last.render)
           /\ \E i \in DOMAIN last.render : last.render[i] = Say(ProcessFailedText)
           /\ \/ HasGather(last.render)
              \/ /\ HasRedirect(last.render)
                 /\ HasGather(voice_timeout(silence_tracker, PUBLIC_BASE_URL,
                                            FormOf(last.call_sid)).render)
    /\ HasHangup(last.render)
        => \/ last.ev = "timeout" /\ last.count >= MAX_SILENCE_COUNT
           \/ /\ last.ev = "process"
              /\ last.chat # None
              /\ _ask_chat(last.chat[1]).should_end

\* The dict after one more silence of call k has been counted: the count
\* stored, or the entry removed when the count reaches MAX_SILENCE_COUNT
CountedOnce(before, after, k) ==
    LET n == DictGet(before, k, 0) + 1
    IN  IF n >= MAX_SILENCE_COUNT
        THEN k \notin DOMAIN after
        ELSE k \in DOMAIN after /\ after[k] = n

\* C4 as claimed: every empty-transcript event, a /voice/process event
\* without transcript included, increases the call's silence count by exactly
\* 1, and every event with a transcript resets it to 0.
C4_EveryEmptyEventCounts ==
    [][ /\ (TimeoutStep \/ SilentProcessStep)
            => CountedOnce(silence_tracker, silence_tracker', last'.call_sid)
        /\ SpeechStep
            => \A k \in Keys : inflight' = inflight (+) SetToBag({k})
                                  => DictGet(silence_tracker', k, 1) = 0
      ]_vars

\* C4 as amended: a /voice/timeout event increases the call's silence count
\* by exactly 1 (the entry is removed in the same step when the count reaches
\* MAX_SILENCE_COUNT); a /voice/process event without transcript leaves the
\* dict unchanged and returns only the redirect to /voice/timeout; a
\* /voice/process event with a transcript resets the count to 0 before the
\* backend is asked, and the backend's reply leaves the count alone unless it
\* carries the end marker, which removes the entry.
C4_TimeoutCountsSpeechResets ==
    [][ /\ TimeoutStep
            => /\ last'.count = DictGet(silence_tracker, last'.call_sid, 0) + 1
               /\ CountedOnce(silence_tracker, silence_tracker', last'.call_sid)
        /\ SilentProcessStep
            => /\ silence_tracker' = silence_tracker
               /\ last'.render = <<Redirect(_abs(PUBLIC_BASE_URL, "/voice/timeout"))>>
        /\ SpeechStep
            => \A k \in Keys : inflight' = inflight (+) SetToBag({k})
                                  => DictGet(silence_tracker', k, 1) = 0
        /\ ReplyStep
            => \/ silence_tracker' = silence_tracker
               \/ /\ HasHangup(last'.render)
                  /\ silence_tracker' = DictPop(silence_tracker, last'.call_sid)
      ]_vars

C4_Witness ==
    /\ last.ev = "process"
    /\ last.chat = None
    /\ DictGet(silence_tracker, last.call_sid, 0) = 1
    /\ last.render = <<Redirect(_abs(PUBLIC_BASE_URL, "/voice/timeout"))>>

\* The events a provider can deliver, and a whole handler run on one of them
\* with nothing else in between (voice_process together with the reply
\* `outcome` of its POST)
Events ==
    {[kind |-> "answer", form |-> f, outcome |-> None] : f \in SidForms}
    \cup {[kind |-> "timeout", form |-> f, outcome |-> None] : f \in SidForms}
    \cup {[kind |-> "process", form |-> f, outcome |-> Some(o)] :
             f \in ProcessForms, o \in ChatOutcomes}

Handle(tracker, base, event) ==
    CASE event.kind = "answer" ->
            LET r == voice_answer(tracker, base, event.form)
            IN  [tracker |-> r.tracker, render |-> r.render]
      [] event.kind = "timeout" ->
            LET r == voice_timeout(tracker, base, event.form)
            IN  [tracker |-> r.tracker, render |-> r.render]
      [] OTHER ->
            LET b == voice_process_begin(tracker, base, event.form)
            IN  IF b.returned
                THEN [tracker |-> b.tracker, render |-> b.render]
                ELSE voice_process_resume(b.tracker, base, b.call_sid, event.outcome[1])

\* The step handles the event the previous return handled, for the same call
\* (/voice/answer, /voice/timeout, /voice/process without transcript)
RedeliveryStep ==
    /\ TimeoutStep \/ AnswerStep \/ SilentProcessStep
    /\ last.ev = last'.ev
    /\ last.call_sid = last'.call_sid
    /\ last.chat = None

\* C5: delivering an event twice leaves the dict as one delivery leaves it
\* and returns the same document, and neither delivery raises: for a
\* /voice/process event with a transcript, run twice against the same reply
\* of the backend from any reachable state, and for every other event, when
\* it is delivered again directly after its first delivery.
C5_DuplicateDeliveryIdempotent ==
    [][ /\ \A event \in Events :
              (/\ event.kind = "process"
               /\ Truthy(FormGetOpt(event.form, "SpeechResult"))
               /\ FormGet(event.form, "CallSid", "unknown") \in called)
                  => LET once == Handle(silence_tracker, PUBLIC_BASE_URL, event)
                         twice == Handle(once.tracker, PUBLIC_BASE_URL, event)
                     IN  /\ twice.tracker = once.tracker
                         /\ twice.render = once.render
                         /\ ~IsError(once.render)
        /\ RedeliveryStep
              => /\ silence_tracker' = silence_tracker
                 /\ last'.render = last.render
                 /\ ~IsError(last'.render)
      ]_vars

\* C6: once a document with a hangup has been returned for a call, no later
\* /voice/process or /voice/timeout event of that call returns a document
\* that opens a listen window, and none leaves a silence_tracker entry for it.
C6_TerminatedIsFinal ==
    [][ /\ (ended /\ last'.call_sid = watched
                  /\ (TimeoutStep \/ SilentProcessStep \/ ReplyStep))
            => /\ ~HasGather(last'.render)
               /\ watched \notin DOMAIN silence_tracker'
        /\ (ended /\ inflight' = inflight (+) SetToBag({watched}))
            => watched \notin DOMAIN silence_tracker'
      ]_vars

\* C7: the first event of a call returns the greeting inside an open listen
\* window (barge-in enabled) followed by the redirect to /voice/timeout, never
\* a hangup, and leaves the call's silence count at 0: the greeting is not
\* counted as a silence.
C7_FirstEventGreets ==
    [][ (cont = "new" /\ cont' # "new")
            => /\ last'.ev = "answer"
               /\ last'.call_sid = watched
               /\ last'.render = ListenRender(PUBLIC_BASE_URL, <<WELCOME_PROMPT>>)
               /\ last'.render[1].verb = "Gather"
               /\ last'.render[1].barge_in
               /\ ~HasHangup(last'.render)
               /\ watched \in DOMAIN silence_tracker'
               /\ silence_tracker'[watched] = 0
               /\ unanswered' = 0
      ]_vars

C7_Witness ==
    /\ last.ev = "answer"
    /\ last.call_sid = watched
    /\ inOrder
    /\ cont = "listen"
    /\ HasGather(last.render)
    /\ DictGet(silence_tracker, watched, 1) = 0

AnswerOf(outcome) == FormGet(outcome.data, "answer", <<>>)

C9_BlankTranscriptIsSilence ==
    \A form \in ProcessForms :
        (/\ FormGet(form, "CallSid", "unknown") \in called
         /\ IsBlank(FormGet(form, "SpeechResult", <<>>)))
            => LET b == voice_process_begin(silence_tracker, PUBLIC_BASE_URL, form)
               IN  /\ b.returned
                   /\ b.tracker = silence_tracker
                   /\ b.render = <<Redirect(_abs(PUBLIC_BASE_URL, "/voice/timeout"))>>

\* C10: when a handler returns a document with a hangup, silence_tracker
\* holds no entry for that call id as the handler returns.
C10_HangupRemovesEntry ==
    [][ (ReturnStep /\ HasHangup(last'.render))
            => last'.call_sid \notin DOMAIN silence_tracker'
      ]_vars

C10_Witness ==
    /\ last.ev = "process"
    /\ HasHangup(last.render)
    /\ last.call_sid \notin DOMAIN silence_tracker
    /\ last.call_sid \in called
    /\ inflight = EmptyBag

\* C11: no /voice/timeout increment is lost.  voice_timeout reads, increments
\* and writes the count with no await in between, so after k timeout events of
\* a call with no reset or removal by another handler in between, starting from
\* a count of 0, the stored count is k, or, from k = MAX_SILENCE_COUNT on, the
\* hangup has been decided and the entry removed.
C11_NoLostTimeoutUpdate ==
    /\ streak < MAX_SILENCE_COUNT
        => DictGet(silence_tracker, watched, 0) = streak
    /\ streak >= MAX_SILENCE_COUNT
        => /\ streak = MAX_SILENCE_COUNT
           /\ watched \notin DOMAIN silence_tracker
           /\ ended

C11_Witness ==
    /\ streak = MAX_SILENCE_COUNT
    /\ last.ev = "timeout"
    /\ last.call_sid = watched
    /\ last.count = MAX_SILENCE_COUNT
    /\ watched \notin DOMAIN silence_tracker

\* C12: every returned document that contains a hangup contains a spoken
\* closing line before the hangup: there is no bare hangup.
SpokenBefore(render, j) ==
    \E i \in 1..(j - 1) :
        /\ render[i].verb = "Say"
        /\ render[i].says # <<>>
        /\ \A t \in 1..Len(render[i].says) : render[i].says[t] # <<>>

C12_NoBareHangup ==
    \A j \in 1..Len(last.render) :
        last.render[j].verb = "Hangup" => SpokenBefore(last.render, j)

C12_Witness ==
    /\ last.ev = "process"
    /\ last.chat # None
    /\ last.render = <<Say(EndGoodbyeText), Hangup>>

\* The entry of call k: None when the dict has none
EntryOf(tracker, k) == IF k \in DOMAIN tracker THEN Some(tracker[k]) ELSE None

KeyOf(event) == FormGet(event.form, "CallSid", "unknown")

Suspends(event) ==
    event.kind = "process" /\ Truthy(FormGetOpt(event.form, "SpeechResult"))

\* The invocations p then q, each run to its return before the next starts
Serial(tracker, base, p, q) ==
    LET first == Handle(tracker, base, p)
        second == Handle(first.tracker, base, q)
    IN  [first |-> first.render, second |-> second.render,
         entry |-> EntryOf(second.tracker, KeyOf(p))]

\* The invocation p of voice_process suspended at its await (line 113) while
\* q runs: q to its return when q does not suspend, and otherwise q up to its
\* own await, the two then resumed in either order.  Renders are listed in
\* the order p, q.
Interleaved(tracker, base, p, q) ==
    LET k == KeyOf(p)
        b == voice_process_begin(tracker, base, p.form)
    IN  IF ~Suspends(q)
        THEN LET m == Handle(b.tracker, base, q)
                 r == voice_process_resume(m.tracker, base, k, p.outcome[1])
             IN  {[first |-> r.render, second |-> m.render,
                   entry |-> EntryOf(r.tracker, k)]}
        ELSE LET b2 == voice_process_begin(b.tracker, base, q.form)
                 pq1 == voice_process_resume(b2.tracker, base, k, p.outcome[1])
                 pq2 == voice_process_resume(pq1.tracker, base, k, q.outcome[1])
                 qp1 == voice_process_resume(b2.tracker, base, k, q.outcome[1])
                 qp2 == voice_process_resume(qp1.tracker, base, k, p.outcome[1])
             IN  {[first |-> pq1.render, second |-> pq2.render,
                   entry |-> EntryOf(pq2.tracker, k)],
                  [first |-> qp2.render, second |-> qp1.render,
                   entry |-> EntryOf(qp2.tracker, k)]}

\* C13: a voice_process invocation suspended on the backend and a
\* voice_timeout (or second voice_process) invocation of the same call that
\* runs meanwhile return the two documents, and leave the call's entry, that
\* one of the two serial orders of the same invocations returns and leaves.
C13_SuspendedTurnSerializable ==
    \A p \in Events, q \in Events :
        (/\ Suspends(p)
         /\ q.kind \in {"timeout", "process"}
         /\ KeyOf(q) = KeyOf(p)
         /\ KeyOf(p) \in called)
            => LET pq == Serial(silence_tracker, PUBLIC_BASE_URL, p, q)
                   qp == Serial(silence_tracker, PUBLIC_BASE_URL, q, p)
               IN  Interleaved(silence_tracker, PUBLIC_BASE_URL, p, q)
                       \subseteq {pq, [first |-> qp.second, second |-> qp.first,
                                       entry |-> qp.entry]}

\* The POST came back with status 200 and a JSON object as body
JsonReply(outcome) ==
    outcome.kind = "response" /\ outcome.status = 200 /\ outcome.json /\ outcome.object

Speaks(render, text) ==
    \E i \in DOMAIN render :
        \E t \in DOMAIN render[i].says : render[i].says[t] = text

\* C14: a voice_process turn whose backend answer carries the end-call marker
\* (lower-cased, it contains both 'end_call' and 'true') returns the goodbye +
\* hangup document, speaks nothing of the answer, opens no listen window and
\* removes the call's entry; a turn whose answer does not carry the marker
\* returns one listen window in which exactly that answer and then the
\* follow-up prompt are spoken, followed by the redirect to /voice/timeout.
\* (A JSON body without answer, or with an empty one, is answered with the
\* sentence of line 195 in the answer's place.)
C14_MarkerEndsElseAnswerSpoken ==
    [][ (ReplyStep /\ JsonReply(last'.chat[1]))
            => LET got == AnswerOf(last'.chat[1])
                   answer == IF got = <<>> THEN NoAnswerText ELSE got
                   k == last'.call_sid
               IN  IF Contains(Lower(answer), "end_call") /\ Contains(Lower(answer), "true")
                   THEN /\ last'.render = <<Say(EndGoodbyeText), Hangup>>
                        /\ ~Speaks(last'.render, answer)
                        /\ ~HasGather(last'.render)
                        /\ k \notin DOMAIN silence_tracker'
                   ELSE /\ last'.render =
                               << Gather(_abs(PUBLIC_BASE_URL, "/voice/process"),
                                         <<answer, FOLLOWUP_PROMPT>>),
                                  Redirect(_abs(PUBLIC_BASE_URL, "/voice/timeout")) >>
                        /\ ~HasHangup(last'.render)
                        /\ silence_tracker' = silence_tracker
      ]_vars

C14_Witness ==
    /\ last.ev = "process"
    /\ last.chat # None
    /\ JsonReply(last.chat[1])
    /\ AnswerOf(last.chat[1]) = HalfMarkerAnswer
    /\ Speaks(last.render, HalfMarkerAnswer)
    /\ Speaks(last.render, FOLLOWUP_PROMPT)

\* A 200 response whose body is not JSON, or is JSON but not an object
NotJson(outcome) ==
    outcome.kind = "response" /\ outcome.status = 200 /\ ~(outcome.json /\ outcome.object)

\* A 200 response with a JSON object without 'answer' or with an empty answer
NoAnswer(outcome) == JsonReply(outcome) /\ AnswerOf(outcome) = <<>>

NetworkError == ChatOutcome("network_error", 0, FALSE, NoFields)

\* C15 as claimed: a malformed backend response (non-JSON body, JSON without
\* 'answer', empty answer) makes the turn return the document, and leave the
\* dict, that a transport failure of the backend makes it return and leave.
C15_MalformedLikeTransportFailure ==
    [][ (ReplyStep /\ (NotJson(last'.chat[1]) \/ NoAnswer(last'.chat[1])))
            => LET failed == voice_process_resume(silence_tracker, PUBLIC_BASE_URL,
                                                  last'.call_sid, NetworkError)
               IN  /\ last'.render = failed.render
                   /\ silence_tracker' = failed.tracker
      ]_vars

\* C15 as amended: a body that is not JSON, or not a JSON object, is handled
\* as a transport failure is: the apology "Sorry, something went wrong ..."
\* and the redirect to /voice/timeout, no listen window.  A JSON object
\* without 'answer' or with an empty answer is handled as an answered turn: one listen window in which
\* "Sorry, I can't find that right now." and then the follow-up prompt are
\* spoken, then the redirect to /voice/timeout.  In all these cases there is
\* no hangup and the dict is left unchanged by the reply.
C15_NotJsonFailsNoAnswerSpoken ==
    [][ /\ (ReplyStep /\ NotJson(last'.chat[1]))
            => LET failed == voice_process_resume(silence_tracker, PUBLIC_BASE_URL,
                                                  last'.call_sid, NetworkError)
               IN  /\ last'.render = failed.render
                   /\ last'.render = << Say(ProcessFailedText),
                                        Redirect(_abs(PUBLIC_BASE_URL, "/voice/timeout")) >>
                   /\ silence_tracker' = silence_tracker
        /\ (ReplyStep /\ NoAnswer(last'.chat[1]))
            => /\ last'.render =
                      << Gather(_abs(PUBLIC_BASE_URL, "/voice/process"),
                                <<NoAnswerText, FOLLOWUP_PROMPT>>),
                         Redirect(_abs(PUBLIC_BASE_URL, "/voice/timeout")) >>
               /\ silence_tracker' = silence_tracker
      ]_vars

C15_Witness ==
    /\ last.ev = "process"
    /\ last.chat # None
    /\ NoAnswer(last.chat[1])
    /\ Speaks(last.render, NoAnswerText)
    /\ HasGather(last.render)

\* C16: every silence_tracker entry that is created is eventually removed,
\* also the entry of a call that is abandoned, i.e. for which no further
\* request arrives.  (FairSpec obliges only the timeout requests of the
\* watched call; the requests of any other call may stop for ever.)
C16_EntriesEventuallyRemoved ==
    \A k \in Keys :
        (k \in DOMAIN silence_tracker) ~> (k \notin DOMAIN silence_tracker)

\* C17: with PUBLIC_BASE_URL empty every handler invocation fails with an
\* error instead of returning a document, and the failed invocation leaves
\* silence_tracker as it found it.
C17_UnsetBaseUrlRefusesToServe ==
    [][ ReturnStep
            => /\ IsError(last'.render)
               /\ silence_tracker' = silence_tracker
      ]_vars

\* C18: in every reachable state, the states in which voice_process
\* invocations are suspended at their await included, every value stored in
\* silence_tracker is an integer in 0 .. MAX_SILENCE_COUNT - 1; a count that
\* reaches MAX_SILENCE_COUNT is removed in the step that reaches it.
C18_StoredCountBelowMax ==
    \A k \in DOMAIN silence_tracker :
        silence_tracker[k] \in 0..(MAX_SILENCE_COUNT - 1)

C18_Witness ==
    /\ inflight # EmptyBag
    /\ last.ev = "timeout"
    /\ last.count = MAX_SILENCE_COUNT - 1
    /\ last.call_sid \in DOMAIN silence_tracker
    /\ silence_tracker[last.call_sid] = MAX_SILENCE_COUNT - 1

\* A document that ends the call: a spoken line, then the hangup as the last
\* verb, and neither a listen window nor a redirect
Terminal(render) ==
    /\ Len(render) >= 2
    /\ render[Len(render)].verb = "Hangup"
    /\ SpokenBefore(render, Len(render))
    /\ ~HasGather(render)
    /\ ~HasRedirect(render)

\* A document that continues the call: its last verb is the redirect to
\* /voice/timeout, it has no hangup, and a listen window it opens comes before
\* the redirect and posts to /voice/process
Continuing(render, base) ==
    /\ Len(render) >= 1
    /\ render[Len(render)] = Redirect(_abs(base, "/voice/timeout"))
    /\ ~HasHangup(render)
    /\ \A i \in DOMAIN render :
          /\ render[i].verb = "Redirect" => i = Len(render)
          /\ render[i].verb = "Gather"
                => i < Len(render) /\ render[i].url = _abs(base, "/voice/process")

\* C19: every document a handler returns is either terminal (spoken line +
\* hangup, no listen window, no redirect) or ends with the redirect to
\* /voice/timeout, after the listen window to /voice/process where it opens
\* one; no document leaves the call with neither a hangup nor a next request.
C19_RenderEndsOrContinues ==
    last.ev # "none"
        => Terminal(last.render) \/ Continuing(last.render, PUBLIC_BASE_URL)

C19_Witness ==
    /\ last.ev = "process"
    /\ last.chat # None
    /\ TransportFailure(last.chat[1])
    /\ ~HasGather(last.render)
    /\ Continuing(last.render, PUBLIC_BASE_URL)

\* The dict with every entry but that of call k taken away
OnlyEntry(tracker, k) == [x \in DOMAIN tracker \cap {k} |-> tracker[x]]

\* A /voice/process form of call k with a transcript
SpeechFormOf(k) ==
    IF k = "unknown" THEN [SpeechResult |-> Question]
    ELSE [CallSid |-> k, SpeechResult |-> Question]

\* C20: a handler invocation of call id c reads and writes only
\* silence_tracker[c].  Every step of a handler leaves the entry of every
\* other call id as it was, in every interleaving; what the step returns and
\* leaves for its own call is what the handler returns and leaves when the
\* dict holds no other entry; and a request without CallSid is handled under
\* the key 'unknown'.
C20_OnlyOwnEntryTouched ==
    [][ /\ \A k \in Keys :
              (\/ ReturnStep /\ last'.call_sid # k
               \/ SpeechStep /\ inflight' # inflight (+) SetToBag({k}))
                  => EntryOf(silence_tracker', k) = EntryOf(silence_tracker, k)
        /\ AnswerStep
              => LET k == last'.call_sid
                     own == voice_answer(OnlyEntry(silence_tracker, k),
                                         PUBLIC_BASE_URL, FormOf(k))
                 IN  /\ last'.render = own.render
                     /\ EntryOf(silence_tracker', k) = EntryOf(own.tracker, k)
        /\ TimeoutStep
              => LET k == last'.call_sid
                     own == voice_timeout(OnlyEntry(silence_tracker, k),
                                          PUBLIC_BASE_URL, FormOf(k))
                 IN  /\ last'.render = own.render
                     /\ EntryOf(silence_tracker', k) = EntryOf(own.tracker, k)
        /\ SilentProcessStep
              => LET k == last'.call_sid
                     own == voice_process_begin(OnlyEntry(silence_tracker, k),
                                                PUBLIC_BASE_URL, FormOf(k))
                 IN  /\ last'.render = own.render
                     /\ EntryOf(silence_tracker', k) = EntryOf(own.tracker, k)
        /\ SpeechStep
              => \A k \in Keys :
                    inflight' = inflight (+) SetToBag({k})
                        => LET own == voice_process_begin(OnlyEntry(silence_tracker, k),
                                                          PUBLIC_BASE_URL, SpeechFormOf(k))
                           IN  EntryOf(silence_tracker', k) = EntryOf(own.tracker, k)
        /\ ReplyStep
              => LET k == last'.call_sid
                     own == voice_process_resume(OnlyEntry(silence_tracker, k),
                                                 PUBLIC_BASE_URL, k, last'.chat[1])
                 IN  /\ last'.render = own.render
                     /\ EntryOf(silence_tracker', k) = EntryOf(own.tracker, k)
        /\ voice_answer(silence_tracker, PUBLIC_BASE_URL, NoFields).call_sid = "unknown"
        /\ voice_timeout(silence_tracker, PUBLIC_BASE_URL, NoFields).call_sid = "unknown"
        /\ \A form \in ProcessForms :
              "CallSid" \notin DOMAIN form
                  => voice_process_begin(silence_tracker, PUBLIC_BASE_URL,
                                         form).call_sid = "unknown"
      ]_vars

C20_Witness ==
    /\ last.ev = "timeout"
    /\ last.call_sid = "CA1"
    /\ HasHangup(last.render)
    /\ "CA1" \notin DOMAIN silence_tracker
    /\ "unknown" \in DOMAIN silence_tracker
    /\ silence_tracker["unknown"] = 1

====
